---- MODULE Spec2Model ----
(***************************************************************************)
(* Model of the poll-and-watch stack declared by medical_imaging_cdk:      *)
(*   - the Step Functions workflow of create_state_machine.py (three       *)
(*     LambdaInvoke tasks chained, each with standard_retry and a catch    *)
(*     to the HandleError Pass state),                                     *)
(*   - the two EventBridge pipes of create_pipes.py (DynamoDB stream ->    *)
(*     filter -> SQS target),                                              *)
(*   - the two SQS queues of create_sqs.py with their dead-letter queues,  *)
(*   - the Encounter-Poller function declared in create_lambdas.py.        *)
(* The declarations are given the meaning the services give them (Amazon   *)
(* States Language for the workflow, SQS redrive for the queues, the pipe  *)
(* filter pattern for the router).                                         *)
(***************************************************************************)
EXTENDS Integers, Sequences, FiniteSets, TLC

VARIABLES
    \* ---- one execution of the workflow (create_state_machine.py)
    current,      \* the state the execution is in, or "End" once it is over
    phase,        \* "invoking": an attempt of the task is running;
                  \* "waiting": a retry is scheduled, its interval running;
                  \* "pass": HandleError is about to be evaluated; "over"
    attempts,     \* per task state: attempts started so far
    failed,       \* per task state: attempts that ended in an error
    waits,        \* per task state: the retry intervals waited, in order
    lastError,    \* per task state: error name of its latest failed attempt
    succeeded,    \* the task states that completed successfully
    errorFrom,    \* the task state whose catch led to HandleError, or "none"
    data,         \* the execution's JSON state: field -> value (or Absent)
    outcome,      \* "RUNNING", "SUCCEEDED" or "FAILED" (execution status)
    endState,     \* the state the execution ended in, or "none"
    \* ---- the pipes (create_pipes.py) and their targets
    batch,        \* the stream record a pipe has polled (batch_size=1) and
                  \* what became of it, or NoBatch
    pipeDlq,      \* per pipe: records handed to the pipe's dead-letter target
    sendLog,      \* the sends the pipes made: <<[pipe, dedupId, at, accepted]>>
    clock,        \* seconds
    \* ---- the queues (create_sqs.py)
    msgs,         \* message id -> message (queue, where it is, receive count,
                  \* seconds of invisibility left)
    \* ---- the EncounterWatch table and the Encounter-Poller
    watch,        \* encounter -> WatchRecord or NoRecord
    inserted,     \* encounters written by the latest Encounter-Poller invocation
    ehrActive,    \* encounters the EHR reported active to that invocation
    ehrAllowed,   \* encounters whose practitioner the whitelist allowed to it
    hours,        \* the poller's clock, in hours
    \* ---- the DocumentWatch table (create_tables.py)
    documentWatch,\* the items of the table
    lastPut,      \* the item of the latest write, or NoItem
    putSeq,       \* parity of the number of writes made
    \* ---- the Document-Poller and the watch list it polls
    watchList,    \* encounter -> its record (status, ticks until its next
                  \* poll is due, expired or not)
    leases,       \* encounter -> the lease marker on its record
    worker,       \* worker -> what it is doing: idle, or polling a record,
                  \* with the answer the EHR gives to its query
    run,          \* invocation -> "idle" or "running"
    dueBatch,     \* invocation -> the records of its batch not yet handled
    missed,       \* the due records that a failed invocation left unpolled
                  \* and that have not been polled since
    \* ---- the credential cache of RefreshCreds, for one firm
    cache,        \* the stored entry: absent, expired or valid, and its token
    priorEntry,   \* what the entry was before the calls: "absent", "expired"
                  \* or "valid"
    flight,       \* the refresh in flight in the process: its owner or "none"
    call,         \* caller -> where its getToken call is, and what it got
    exchanges,    \* token exchanges made with the identity provider
    \* ---- the synthesis of the stack (app.py, medical_imaging_stack.py)
    environment,  \* the environment the stack is built for, or "none"
    buildPc,      \* the statement of MedicalImagingStack.__init__ to run next
    resources,    \* the resources declared so far: [type, id]
    \* ---- two scheduled runs writing the EncounterWatch table
    encounterWatch, \* the items of the table
    orch          \* run -> where it is, what the EHR gave it, what it still
                  \* has to write

wfVars    == <<current, phase, attempts, failed, waits, lastError, succeeded,
               errorFrom, data, outcome, endState>>
pipeVars  == <<batch, pipeDlq, sendLog, clock>>
queueVars == <<msgs>>
watchVars == <<watch, inserted, ehrActive, ehrAllowed, hours>>
storeVars == <<documentWatch, lastPut, putSeq>>
docVars   == <<watchList, leases, worker, run, dueBatch, missed>>
credVars  == <<cache, priorEntry, flight, call, exchanges>>
stackVars == <<environment, buildPc, resources>>
orchVars  == <<encounterWatch, orch>>
vars      == <<wfVars, pipeVars, queueVars, watchVars, storeVars, docVars, credVars,
               stackVars, orchVars>>

----------------------------------------------------------------------------
(* The workflow: create_state_machine.py                                   *)

\* The three LambdaInvoke task states, by construct id, in the order of the
\* chain.  MedicalImagingStack passes refresh_creds, encounter_poller and
\* document_poller as the three functions, in this order.
extract_metadata_task == "ExtractMetadata"
process_image_task    == "ProcessImage"
analyze_image_task    == "AnalyzeImage"
handle_error          == "HandleError"

TaskStates == {extract_metadata_task, process_image_task, analyze_image_task}

\* result_path of each task.  (Variant: every task writes to the same path.)
ResultPathShared(s) == "metadataResult"
result_path(s) ==
    CASE s = extract_metadata_task -> "metadataResult"
      [] s = process_image_task    -> "processingResult"
      [] s = analyze_image_task    -> "analysisResult"

\* standard_retry = RetryProps(max_attempts=3, interval=2 s, backoff_rate=2,
\* errors=[...]).  In the States Language MaxAttempts counts the retries of
\* a state, not its attempts: the first attempt is not one of them.
max_attempts == 3
interval     == 2
backoff_rate == 2
retry_errors == {"Lambda.ServiceException", "Lambda.ResourceNotFoundException"}

\* The error names an invocation can end with: the two of standard_retry, a
\* function error and a function timeout.
ErrorKinds == retry_errors \cup {"States.TaskFailed", "Sandbox.Timedout"}

\* ---- bounds of the model
MaxMsgs      == 2    \* records a pipe handles, messages a producer sends
PipeMaxTicks == 5    \* ticks of the clock in the pipe specification
MaxHourTicks == 3    \* ticks of the poller's clock

RECURSIVE Pow(_, _)
Pow(b, n) == IF n = 0 THEN 1 ELSE b * Pow(b, n - 1)

\* The interval before retry number n (n = 1, 2, ...): interval * rate^(n-1).
RetryInterval(n) == interval * Pow(backoff_rate, n - 1)

\* Does the retrier of a task apply to error e after `done` retries?
\* (Variants: a retrier listing every error; a retrier with one retry.)
RetriesAnyError(e, done) == done < max_attempts
RetriesOnceOnly(e, done) == e \in retry_errors /\ done < 1
Retries(e, done) == e \in retry_errors /\ done < max_attempts

\* workflow_definition: extract_metadata_task.next(process_image_task.next(
\* analyze_image_task)); the last task has no next state and ends the run.
\* (Variant: the first task chained straight to the third.)
NextStateSkipping(s) ==
    CASE s = extract_metadata_task -> analyze_image_task
      [] s = process_image_task    -> analyze_image_task
      [] s = analyze_image_task    -> "End"
NextState(s) ==
    CASE s = extract_metadata_task -> process_image_task
      [] s = process_image_task    -> analyze_image_task
      [] s = analyze_image_task    -> "End"

StartAt == extract_metadata_task

\* add_catch(handle_error, result_path="$.error") on each task: every error
\* (States.ALL, the default) goes to HandleError, with the error output
\* {Error, Cause} stored under $.error.
CatchTarget(s) == handle_error
catch_result_path == "error"

\* JSON state of an execution.  A field is Absent or a record.
Fields == {"cause", "metadataResult", "processingResult", "analysisResult",
           "error", "errorInfo"}
Absent == [present |-> FALSE]
Has(d, f) == d[f].present

\* What a path "$.f.Payload" of a task's payload selects in state d.
Select(d, f) == IF Has(d, f) THEN d[f].Payload ELSE "PathFailure"

\* payload=TaskInput.from_object({...}) of each task, evaluated on the state
\* d the task is entered with.  (executionId and timestamp come from the
\* context object, not from the state.)
payload(s, d) ==
    CASE s = extract_metadata_task -> [input |-> d]
      [] s = process_image_task    ->
            [metadataResult |-> Select(d, "metadataResult")]
      [] s = analyze_image_task    ->
            [processingResult |-> Select(d, "processingResult"),
             metadataResult   |-> Select(d, "metadataResult")]

\* The input of a run.  The scheduled rule of create_rules.py sends
\* {time, region, source, detail-type}: none of the fields the workflow
\* reads.  An execution started directly can carry any JSON; the one field
\* of it the workflow reads is "cause" (HandleError's "cause.$": "$.cause").
ScheduledInput == [f \in Fields |-> Absent]
InputWithCause == [ScheduledInput EXCEPT !["cause"] = [present |-> TRUE, value |-> "input"]]

WorkflowInit ==
    /\ current = StartAt
    /\ phase = "invoking"
    /\ attempts = [s \in TaskStates |-> IF s = StartAt THEN 1 ELSE 0]
    /\ failed = [s \in TaskStates |-> 0]
    /\ waits = [s \in TaskStates |-> <<>>]
    /\ lastError = [s \in TaskStates |-> "none"]
    /\ succeeded = {}
    /\ errorFrom = "none"
    /\ data \in {ScheduledInput, InputWithCause}
    /\ outcome = "RUNNING"
    /\ endState = "none"

\* An attempt of task s returns: its result goes to result_path and the run
\* moves to the next state (whose first attempt starts), or ends.
TaskSucceed(s) ==
    /\ current = s /\ phase = "invoking"
    /\ succeeded' = succeeded \cup {s}
    /\ data' = [data EXCEPT ![result_path(s)] = [present |-> TRUE, Payload |-> s]]
    /\ current' = NextState(s)
    /\ IF NextState(s) = "End"
       THEN /\ phase' = "over"
            /\ outcome' = "SUCCEEDED"
            /\ endState' = s
            /\ attempts' = attempts
       ELSE /\ phase' = "invoking"
            /\ attempts' = [attempts EXCEPT ![NextState(s)] = 1]
            /\ UNCHANGED <<outcome, endState>>
    /\ UNCHANGED <<failed, waits, lastError, errorFrom>>
    /\ UNCHANGED <<pipeVars, queueVars, watchVars, storeVars, docVars, credVars, stackVars, orchVars>>

\* An attempt of task s ends with error e: the retrier applies (the retry is
\* scheduled after its interval) or the catch takes the run to HandleError.
TaskFail(s, e) ==
    /\ current = s /\ phase = "invoking"
    /\ failed' = [failed EXCEPT ![s] = @ + 1]
    /\ lastError' = [lastError EXCEPT ![s] = e]
    /\ IF Retries(e, Len(waits[s]))
       THEN /\ phase' = "waiting"
            /\ waits' = [waits EXCEPT ![s] = Append(@, RetryInterval(Len(@) + 1))]
            /\ UNCHANGED <<current, errorFrom, data, outcome, endState>>
       ELSE /\ waits' = waits
            /\ errorFrom' = s
            /\ data' = [data EXCEPT ![catch_result_path] =
                            [present |-> TRUE, Error |-> e, Cause |-> s]]
            /\ current' = CatchTarget(s)
            /\ phase' = "pass"
            /\ UNCHANGED <<outcome, endState>>
    /\ UNCHANGED <<attempts, succeeded>>
    /\ UNCHANGED <<pipeVars, queueVars, watchVars, storeVars, docVars, credVars, stackVars, orchVars>>

\* The retry interval has passed: the next attempt of task s starts.
RetryTask(s) ==
    /\ current = s /\ phase = "waiting"
    /\ phase' = "invoking"
    /\ attempts' = [attempts EXCEPT ![s] = @ + 1]
    /\ UNCHANGED <<current, failed, waits, lastError, succeeded, errorFrom,
                   data, outcome, endState>>
    /\ UNCHANGED <<pipeVars, queueVars, watchVars, storeVars, docVars, credVars, stackVars, orchVars>>

\* HandleError = Pass(parameters={"error.$": "$.error", "cause.$": "$.cause",
\* "status": "ERROR"}, result_path="$.errorInfo"), with no next state.  A
\* path of Parameters that selects nothing in the state's input fails the
\* state (States.ParameterPathFailure; a Pass state has no retrier and no
\* catch): the execution then ends FAILED and $.errorInfo is not written.
\* When both paths select something the Pass state writes $.errorInfo and,
\* being the last state, ends the execution SUCCEEDED.  The catches write
\* $.error (an object {Error, Cause}); nothing in the workflow writes
\* $.cause.
HandleErrorResolves(d) == Has(d, "error") /\ Has(d, "cause")
HandleError ==
    /\ current = handle_error /\ phase = "pass"
    /\ current' = "End"
    /\ phase' = "over"
    /\ endState' = handle_error
    /\ IF HandleErrorResolves(data)
       THEN /\ data' = [data EXCEPT !["errorInfo"] =
                           [present |-> TRUE, error |-> data["error"],
                            cause |-> data["cause"], status |-> "ERROR"]]
            /\ outcome' = "SUCCEEDED"
       ELSE /\ data' = data
            /\ outcome' = "FAILED"
    /\ UNCHANGED <<attempts, failed, waits, lastError, succeeded, errorFrom>>
    /\ UNCHANGED <<pipeVars, queueVars, watchVars, storeVars, docVars, credVars, stackVars, orchVars>>


----------------------------------------------------------------------------
(* The queues: create_sqs.py                                               *)

composition_queue == "CompositionQueue"
s3_upload_queue   == "S3UploadQueue"
Queues == {composition_queue, s3_upload_queue}

\* visibility_timeout=Duration.seconds(...)
visibility_timeout(q) ==
    CASE q = composition_queue -> 300
      [] q = s3_upload_queue   -> 180

\* dead_letter_queue=sqs.DeadLetterQueue(max_receive_count=3, queue=...):
\* the same on both queues.
max_receive_count == 3

\* Time passes in steps that meet both visibility timeouts exactly.
RECURSIVE Gcd(_, _)
Gcd(a, b) == IF b = 0 THEN a ELSE Gcd(b, a % b)
TickStep == Gcd(visibility_timeout(composition_queue), visibility_timeout(s3_upload_queue))

\* invisible: seconds of the visibility timeout left; sinceReceive: seconds
\* passed since the message was last received, while it is in flight.
NoMsg == [loc |-> "none", queue |-> "none", dedupId |-> "none",
          receiveCount |-> 0, invisible |-> 0, sinceReceive |-> 0]

MsgIds == 1 .. MaxMsgs
FreeIds == {m \in MsgIds : msgs[m].loc = "none"}
NextId == CHOOSE m \in FreeIds : \A n \in FreeIds : m <= n

\* msgs after a send to q with deduplication id d.  Neither queue is
\* declared fifo=True (nor content_based_deduplication): both are standard
\* queues, which keep no record of deduplication ids and store every message
\* sent to them.
Enqueue(q, d) ==
    [msgs EXCEPT ![NextId] = [loc |-> "main", queue |-> q, dedupId |-> d,
                              receiveCount |-> 0, invisible |-> 0,
                              sinceReceive |-> 0]]

QueueInit == msgs = [m \in MsgIds |-> NoMsg]

\* Has a message already received `count` times used up its receives?
\* (Variant: one receive too early.)
ExhaustedEarly(count) == count >= max_receive_count - 1
Exhausted(count) == count >= max_receive_count

\* Is message m hidden from receive requests?  (Variant: a message in flight
\* is never hidden.)
HiddenNever(m) == FALSE
Hidden(m) == msgs[m].invisible > 0

\* A consumer's receive request reaches message m, which is visible.  The
\* request counts as a receive; when the count then exceeds
\* max_receive_count the queue moves the message to its dead-letter queue
\* instead of delivering it, otherwise the message is delivered and hidden
\* for the visibility timeout.
ReceiveMessage(m) ==
    /\ msgs[m].loc = "main"
    /\ ~Hidden(m)
    /\ msgs' = [msgs EXCEPT
                  ![m].receiveCount = @ + 1,
                  ![m].sinceReceive = 0,
                  ![m].loc = IF Exhausted(msgs[m].receiveCount) THEN "dlq" ELSE "main",
                  ![m].invisible = IF Exhausted(msgs[m].receiveCount)
                                   THEN 0 ELSE visibility_timeout(msgs[m].queue)]
    /\ UNCHANGED <<wfVars, pipeVars, watchVars, storeVars, docVars, credVars, stackVars, orchVars>>

\* The consumer acks (deletes) a message it has received.
DeleteMessage(m) ==
    /\ msgs[m].loc = "main"
    /\ msgs[m].receiveCount > 0
    /\ msgs' = [msgs EXCEPT ![m].loc = "deleted", ![m].invisible = 0,
                             ![m].sinceReceive = 0]
    /\ UNCHANGED <<wfVars, pipeVars, watchVars, storeVars, docVars, credVars, stackVars, orchVars>>

\* A producer holding the role given grant_send_messages sends to q.
SendMessage(q) ==
    /\ FreeIds # {}
    /\ msgs' = Enqueue(q, "none")
    /\ UNCHANGED <<wfVars, pipeVars, watchVars, storeVars, docVars, credVars, stackVars, orchVars>>

\* TickStep seconds pass for the messages in flight.
VisibilityTick ==
    /\ \E m \in MsgIds : msgs[m].invisible > 0
    /\ msgs' = [m \in MsgIds |->
                  IF msgs[m].invisible > 0
                  THEN [msgs[m] EXCEPT !.invisible = @ - TickStep,
                                       !.sinceReceive = @ + TickStep]
                  ELSE msgs[m]]
    /\ UNCHANGED <<wfVars, pipeVars, watchVars, storeVars, docVars, credVars, stackVars, orchVars>>

----------------------------------------------------------------------------
(* The pipes: create_pipes.py                                              *)

document_watch_pipe == "DocumentWatchToS3UploadPipe"
ddx_results_pipe    == "DdxResultsToCompositionQueuePipe"
Pipes == {document_watch_pipe, ddx_results_pipe}

\* target=...queue_arn
target(p) ==
    CASE p = document_watch_pipe -> s3_upload_queue
      [] p = ddx_results_pipe    -> composition_queue

\* filter_criteria: {"eventName": ["INSERT", "MODIFY"],
\*                   "dynamodb": {"NewImage": {"status": {"S": [...]}}}}
filter_event_names == {"INSERT", "MODIFY"}
filter_status(p) ==
    CASE p = document_watch_pipe -> "NEW"
      [] p = ddx_results_pipe    -> "ANALYZED"

\* A record of a table's stream, with the status of its NewImage.  Both
\* source tables (DocumentWatch, DdxAssistResults) are keyed by fileId
\* (partition key) and firmId; imageId is an attribute an item may carry,
\* equal to its fileId or not.  REMOVE is the stream's event name for a
\* delete.
EventNames == {"INSERT", "MODIFY", "REMOVE"}
Statuses   == {"NEW", "FOUND", "ANALYZED"}
FileIds    == {"doc1"}
ImageIds   == {"doc1", "doc2"}
StreamRecords == [eventName : EventNames, status : Statuses,
                  fileId : FileIds, imageId : ImageIds]

\* The partition key of the source table of either pipe.
partition_key(rec) == rec.fileId

\* (Variant: a pattern without the eventName key.)
MatchesAnyEvent(p, rec) == rec.status = filter_status(p)
Matches(p, rec) ==
    /\ rec.eventName \in filter_event_names
    /\ rec.status = filter_status(p)

\* message_deduplication_id="$.dynamodb.NewImage.imageId.S"
message_deduplication_id(rec) == rec.imageId

NoBatch == [state |-> "none"]

PipeInit ==
    /\ batch = NoBatch
    /\ pipeDlq = [p \in Pipes |-> 0]
    /\ sendLog = <<>>
    /\ clock = 0

Handled == Len(sendLog) + pipeDlq[document_watch_pipe] + pipeDlq[ddx_results_pipe]

\* Pipe p polls one record off its stream (batch_size=1).
PipePoll(p, rec) ==
    /\ batch.state # "polled"
    /\ Handled < MaxMsgs
    /\ batch' = [state |-> "polled", pipe |-> p, rec |-> rec]
    /\ UNCHANGED <<pipeDlq, sendLog, clock, queueVars, wfVars, watchVars, storeVars, docVars, credVars, stackVars, orchVars>>

\* The pipe handles the polled record: one that does not match the filter is
\* dropped; one that matches is sent to the target queue, or, when the send
\* keeps failing or is refused (ok = FALSE), handed to the dead-letter
\* target (dead_letter_config).
PipeProcess(ok) ==
    /\ batch.state = "polled"
    /\ IF ~Matches(batch.pipe, batch.rec)
       THEN /\ batch' = [batch EXCEPT !.state = "dropped"]
            /\ UNCHANGED <<msgs, pipeDlq, sendLog>>
       ELSE IF ok
       THEN /\ batch' = [batch EXCEPT !.state = "sent"]
            /\ msgs' = Enqueue(target(batch.pipe), message_deduplication_id(batch.rec))
            /\ sendLog' = Append(sendLog,
                            [pipe |-> batch.pipe,
                             dedupId |-> message_deduplication_id(batch.rec),
                             at |-> clock,
                             accepted |-> msgs' # msgs])
            /\ UNCHANGED pipeDlq
       ELSE /\ batch' = [batch EXCEPT !.state = "dead"]
            /\ pipeDlq' = [pipeDlq EXCEPT ![batch.pipe] = @ + 1]
            /\ UNCHANGED <<msgs, sendLog>>
    /\ UNCHANGED <<clock, wfVars, watchVars, storeVars, docVars, credVars, stackVars, orchVars>>

PipeTick ==
    /\ clock + TickStep <= PipeMaxTicks * TickStep
    /\ clock' = clock + TickStep
    /\ UNCHANGED <<batch, pipeDlq, sendLog, queueVars, wfVars, watchVars, storeVars, docVars, credVars, stackVars, orchVars>>

----------------------------------------------------------------------------
(* The EncounterWatch table and the Encounter-Poller                       *)

Encounters == {"enc1", "enc2", "enc3"}
NoRecord == [present |-> FALSE, status |-> "none", expiresAt |-> 0]

\* "a TTL of 24 hours" (create_encounter_poller's docstring)
TTL_HOURS == 24
HourStep == TTL_HOURS \div 2

\* A record past its expiry is logically absent.
Live(r, now) == r.present /\ r.expiresAt >= now

WatchInit ==
    /\ watch = [e \in Encounters |-> NoRecord]
    /\ inserted = {}
    /\ ehrActive = {}
    /\ ehrAllowed = {}
    /\ hours = 0

\* The encounters an invocation writes: the active ones that pass the
\* whitelist and have no live record.  (Variant: no look-up of the table.)
ToInsertIgnoringWatch(active, allowed) == active \cap allowed
ToInsert(active, allowed) ==
    {e \in active \cap allowed : ~Live(watch[e], hours)}

\* One invocation of Encounter-Poller: the EHR reports `active`, of which
\* `allowed` pass the PractitionerWhitelist.
EncounterPoller(active, allowed) ==
    /\ ehrActive' = active
    /\ ehrAllowed' = allowed
    /\ inserted' = ToInsert(active, allowed)
    /\ watch' = [e \in Encounters |->
                    IF e \in ToInsert(active, allowed)
                    THEN [present |-> TRUE, status |-> "NEW",
                          expiresAt |-> hours + TTL_HOURS]
                    ELSE watch[e]]
    /\ UNCHANGED <<hours, wfVars, pipeVars, queueVars, storeVars, docVars, credVars, stackVars, orchVars>>

HourTick ==
    /\ hours + HourStep <= MaxHourTicks * HourStep
    /\ hours' = hours + HourStep
    /\ UNCHANGED <<watch, inserted, ehrActive, ehrAllowed, wfVars, pipeVars,
                   queueVars, storeVars, docVars, credVars, stackVars, orchVars>>

----------------------------------------------------------------------------
(* The DocumentWatch table: create_tables.py                               *)

\* create_document_watch_table: partition_key fileId, sort_key firmId (both
\* strings); an item carries its key and its other attributes.
DocumentIds == {"doc1", "doc2"}
FirmIds     == {"firmA", "firmB"}
Items == [fileId : DocumentIds, firmId : FirmIds, status : Statuses]
NoItem == [fileId |-> "none"]

\* The composite primary key of an item.
Key(item) == <<item.fileId, item.firmId>>

\* PutItem: the table holds at most one item per primary key; a write under
\* a key that is present replaces the item.  (Variant: a write that leaves
\* the old item in place.)
PutItemKeepingOld(table, item) == table \cup {item}
PutItem(table, item) == {i \in table : Key(i) # Key(item)} \cup {item}

\* GetItem by primary key: the items stored under the key.
GetItem(table, key) == {i \in table : Key(i) = key}

StoreInit ==
    /\ documentWatch = {}
    /\ lastPut = NoItem
    /\ putSeq = 0

\* A writer of the table (a function holding grant_read_write_data) puts an
\* item.
Put(item) ==
    /\ documentWatch' = PutItem(documentWatch, item)
    /\ lastPut' = item
    /\ putSeq' = 1 - putSeq
    /\ UNCHANGED <<wfVars, pipeVars, queueVars, watchVars, docVars, credVars, stackVars, orchVars>>

----------------------------------------------------------------------------
(* The Document-Poller: "leasing and polling batches of encounters in the  *)
(* watch list" (create_document_poller)                                    *)

WatchList == {"enc1", "enc2"}
Runs      == {"run1", "run2"}
Workers   == {"w1", "w2", "w3"}

\* The invocation a worker belongs to: two workers of one invocation and one
\* of an overlapping invocation.
RunOf(w) == IF w = "w3" THEN "run2" ELSE "run1"

\* Time passes in ticks.  A lease lasts LeaseTicks ticks; a record polled
\* without a match is due again PollTicks ticks later.
LeaseTicks == 1
PollTicks  == 1

NoLease == [holder |-> "none", left |-> 0]
Idle    == [state |-> "idle", rec |-> "none", match |-> FALSE]

\* The DocumentWatch item saved for a document found for encounter e.
FoundItem(e) ==
    [fileId |-> IF e = "enc1" THEN "doc1" ELSE "doc2", firmId |-> "firmA",
     status |-> "NEW"]

DocPollerInit ==
    /\ watchList = [e \in WatchList |->
                      [status |-> "NEW", dueIn |-> 0, expired |-> FALSE]]
    /\ leases = [e \in WatchList |-> NoLease]
    /\ worker = [w \in Workers |-> Idle]
    /\ run = [r \in Runs |-> "idle"]
    /\ dueBatch = [r \in Runs |-> {}]
    /\ missed = {}

\* Is the record due for a poll?  Its next-poll-due has elapsed, it has not
\* expired and it still awaits its document.
Due(e) ==
    /\ watchList[e].status = "NEW"
    /\ watchList[e].dueIn = 0
    /\ ~watchList[e].expired

\* An invocation starts (the schedule fires, the workflow reaches its third
\* task) and selects its batch: the records that are due.  (Variant: a
\* batch that leaves out the records a failed invocation missed.)
BatchWithoutMissed == {e \in WatchList : Due(e) /\ e \notin missed}
Batch == {e \in WatchList : Due(e)}
StartRun(r) ==
    /\ run[r] = "idle"
    /\ run' = [run EXCEPT ![r] = "running"]
    /\ dueBatch' = [dueBatch EXCEPT ![r] = Batch]
    /\ UNCHANGED <<watchList, leases, worker, missed>>
    /\ UNCHANGED <<wfVars, pipeVars, queueVars, watchVars, storeVars, credVars, stackVars, orchVars>>

\* Can a lease on the record be taken?  Only when no unexpired lease marker
\* is on it.  (Variant: no look at the marker.)
LeaseAlwaysFree(e) == TRUE
LeaseFree(e) == leases[e].left = 0

\* A free worker of a running invocation takes the next record of the batch:
\* it acquires the lease and queries the EHR for documents of the target
\* category (match: does the EHR have one?), or, the lease being held,
\* skips the record and stays free.
Lease(w, e, match) ==
    /\ run[RunOf(w)] = "running"
    /\ worker[w].state = "idle"
    /\ e \in dueBatch[RunOf(w)]
    /\ dueBatch' = [dueBatch EXCEPT ![RunOf(w)] = @ \ {e}]
    /\ IF LeaseFree(e)
       THEN /\ leases' = [leases EXCEPT ![e] = [holder |-> w, left |-> LeaseTicks]]
            /\ worker' = [worker EXCEPT ![w] = [state |-> "polling", rec |-> e,
                                                 match |-> match]]
       ELSE UNCHANGED <<leases, worker>>
    /\ UNCHANGED <<watchList, run, missed>>
    /\ UNCHANGED <<wfVars, pipeVars, queueVars, watchVars, storeVars, credVars, stackVars, orchVars>>

\* The record after a poll of it returned.  (Variant: a poll without a match
\* leaves the record due.)
PolledNoReschedule(rec, match) ==
    IF match THEN [rec EXCEPT !.status = "FOUND"] ELSE rec
Polled(rec, match) ==
    IF match THEN [rec EXCEPT !.status = "FOUND"]
             ELSE [rec EXCEPT !.dueIn = PollTicks]

\* The poll of worker w returns: the record is updated, a found document is
\* saved to DocumentWatch, the lease is given back.
PollReturns(w) ==
    /\ worker[w].state = "polling"
    /\ LET e == worker[w].rec IN
          /\ watchList' = [watchList EXCEPT ![e] = Polled(@, worker[w].match)]
          /\ IF worker[w].match
             THEN /\ documentWatch' = PutItem(documentWatch, FoundItem(e))
                  /\ lastPut' = FoundItem(e)
                  /\ putSeq' = 1 - putSeq
             ELSE UNCHANGED storeVars
          /\ leases' = [leases EXCEPT ![e] = IF @.holder = w THEN NoLease ELSE @]
          /\ missed' = missed \ {e}
    /\ worker' = [worker EXCEPT ![w] = Idle]
    /\ UNCHANGED <<run, dueBatch>>
    /\ UNCHANGED <<wfVars, pipeVars, queueVars, watchVars, credVars, stackVars, orchVars>>

WorkersOf(r) == {w \in Workers : RunOf(w) = r}
Polling(r) == {worker[w].rec : w \in {v \in WorkersOf(r) : worker[v].state = "polling"}}

\* The invocation has handled its batch and returns.
FinishRun(r) ==
    /\ run[r] = "running"
    /\ dueBatch[r] = {}
    /\ Polling(r) = {}
    /\ run' = [run EXCEPT ![r] = "idle"]
    /\ UNCHANGED <<watchList, leases, worker, dueBatch, missed>>
    /\ UNCHANGED <<wfVars, pipeVars, queueVars, watchVars, storeVars, credVars, stackVars, orchVars>>

\* The invocation fails (an error, the function's timeout): its workers
\* stop where they are and what is left of the batch is not handled.  The
\* lease markers they hold stay until they expire.
FailRun(r) ==
    /\ run[r] = "running"
    /\ run' = [run EXCEPT ![r] = "idle"]
    /\ worker' = [w \in Workers |-> IF RunOf(w) = r THEN Idle ELSE worker[w]]
    /\ dueBatch' = [dueBatch EXCEPT ![r] = {}]
    /\ missed' = missed \cup {e \in dueBatch[r] \cup Polling(r) : Due(e)}
    /\ UNCHANGED <<watchList, leases>>
    /\ UNCHANGED <<wfVars, pipeVars, queueVars, watchVars, storeVars, credVars, stackVars, orchVars>>

\* A tick passes.  A lease covers the call it was taken for: the call
\* returns, or its invocation fails, before the marker runs out.
DocTick ==
    /\ \E e \in WatchList : leases[e].left > 0 \/ watchList[e].dueIn > 0
    /\ \A w \in Workers :
          worker[w].state = "polling" => leases[worker[w].rec].left # 1
    /\ leases' = [e \in WatchList |->
                    IF leases[e].left > 1
                    THEN [leases[e] EXCEPT !.left = @ - 1] ELSE NoLease]
    /\ watchList' = [e \in WatchList |->
                       IF watchList[e].dueIn > 0
                       THEN [watchList[e] EXCEPT !.dueIn = @ - 1] ELSE watchList[e]]
    /\ UNCHANGED <<worker, run, dueBatch, missed>>
    /\ UNCHANGED <<wfVars, pipeVars, queueVars, watchVars, storeVars, credVars, stackVars, orchVars>>

\* The record's expiry (24 hours after its insertion) passes.
RecordExpires(e) ==
    /\ ~watchList[e].expired
    /\ watchList' = [watchList EXCEPT ![e].expired = TRUE]
    /\ UNCHANGED <<leases, worker, run, dueBatch, missed>>
    /\ UNCHANGED <<wfVars, pipeVars, queueVars, watchVars, storeVars, credVars, stackVars, orchVars>>

----------------------------------------------------------------------------
(* The credential cache of RefreshCreds: "looks up the secret and gets a   *)
(* fresh token if expired, otherwise passes the token" (create_refresh_creds) *)

\* Two getToken calls for one firm, in one process.
Callers == {"c1", "c2"}

NoEntry == [state |-> "absent", token |-> 0]
NotCalled == [pc |-> "idle", token |-> 0, via |-> "none"]

CredsInit ==
    /\ cache = NoEntry
    /\ priorEntry = "absent"
    /\ flight = "none"
    /\ call = [c \in Callers |-> NotCalled]
    /\ exchanges = 0

\* Before the calls, an earlier refresh left an entry that has expired since
\* (valid = FALSE) or is still valid.  Its token is number 0; the identity
\* provider numbers the tokens it issues from 1.
EarlierRefresh(valid) ==
    /\ priorEntry = "absent" /\ cache = NoEntry
    /\ \A c \in Callers : call[c].pc = "idle"
    /\ cache' = [state |-> IF valid THEN "valid" ELSE "expired", token |-> 0]
    /\ priorEntry' = IF valid THEN "valid" ELSE "expired"
    /\ UNCHANGED <<flight, call, exchanges>>
    /\ UNCHANGED <<wfVars, pipeVars, queueVars, watchVars, storeVars, docVars, stackVars, orchVars>>

\* Does a call that starts join the refresh in flight?  (Variant: a call
\* that never looks for one.)
JoinsNever(f) == FALSE
Joins(f) == f # "none"

\* getToken(firm) is called: the call joins the refresh in flight for the
\* firm, or becomes the one in flight (single-flight per firm).
GetToken(c) ==
    /\ call[c].pc = "idle"
    /\ IF Joins(flight)
       THEN /\ call' = [call EXCEPT ![c].pc = "waiting"]
            /\ flight' = flight
       ELSE /\ call' = [call EXCEPT ![c].pc = "lookup"]
            /\ flight' = c
    /\ UNCHANGED <<cache, priorEntry, exchanges>>
    /\ UNCHANGED <<wfVars, pipeVars, queueVars, watchVars, storeVars, docVars, stackVars, orchVars>>

\* The call in flight looks up the stored entry: a valid one is the answer;
\* an absent or expired one has to be refreshed.
Lookup(c) ==
    /\ call[c].pc = "lookup"
    /\ call' = [call EXCEPT ![c] =
                  IF cache.state = "valid"
                  THEN [pc |-> "resolve", token |-> cache.token, via |-> "cache"]
                  ELSE [@ EXCEPT !.pc = "exchange"]]
    /\ UNCHANGED <<cache, priorEntry, flight, exchanges>>
    /\ UNCHANGED <<wfVars, pipeVars, queueVars, watchVars, storeVars, docVars, stackVars, orchVars>>

\* The call fetches the firm's secret and exchanges it with the identity
\* provider, which issues a new token.
ExchangeToken(c) ==
    /\ call[c].pc = "exchange"
    /\ exchanges' = exchanges + 1
    /\ call' = [call EXCEPT ![c] =
                  [pc |-> "persist", token |-> exchanges + 1, via |-> "exchange"]]
    /\ UNCHANGED <<cache, priorEntry, flight>>
    /\ UNCHANGED <<wfVars, pipeVars, queueVars, watchVars, storeVars, docVars, stackVars, orchVars>>

\* The call stores the new token and its expiry.
Persist(c) ==
    /\ call[c].pc = "persist"
    /\ cache' = [state |-> "valid", token |-> call[c].token]
    /\ call' = [call EXCEPT ![c].pc = "resolve"]
    /\ UNCHANGED <<priorEntry, flight, exchanges>>
    /\ UNCHANGED <<wfVars, pipeVars, queueVars, watchVars, storeVars, docVars, stackVars, orchVars>>

\* The call in flight completes: it and the calls that joined it return its
\* token.
Resolve(c) ==
    /\ call[c].pc = "resolve"
    /\ call' = [d \in Callers |->
                  IF d = c THEN [call[c] EXCEPT !.pc = "returned"]
                  ELSE IF call[d].pc = "waiting" /\ flight = c
                  THEN [pc |-> "returned", token |-> call[c].token, via |-> "joined"]
                  ELSE call[d]]
    /\ flight' = IF flight = c THEN "none" ELSE flight
    /\ UNCHANGED <<cache, priorEntry, exchanges>>
    /\ UNCHANGED <<wfVars, pipeVars, queueVars, watchVars, storeVars, docVars, stackVars, orchVars>>

----------------------------------------------------------------------------
(* The synthesis of the stack: app.py and medical_imaging_stack.py         *)

\* environment = context "environment", or CDK_ENVIRONMENT, or "dev".
Environments == {"dev", "staging", "prod"}

\* bucket_name="mod-med-image-files-dev" if environment == "dev" else
\* "mod-med-image-files"
bucket_name(env) ==
    IF env = "dev" THEN "mod-med-image-files-dev" ELSE "mod-med-image-files"

Res(type, id) == [type |-> type, id |-> id]

\* The statements of MedicalImagingStack.__init__ that declare resources, in
\* order, with what each declares.  The stack imports
\* create_poller_state_machine and create_poller_rule; the modules define
\* create_imaging_state_machine and create_scheduler_rule, taken in their
\* place.  The state machine is given no role, so that the construct makes
\* one (the stack grants to poller_state_machine.role).  Layers, the log
\* group, grants and event sources declare none of the resources counted
\* here.
Statements(env) == <<
    {Res("Bucket", bucket_name(env))},
    {Res("Table", "EncounterWatch")},
    {Res("Table", "DocumentWatch")},
    {Res("Table", "DdxAssistResults")},
    {Res("Table", "company-config-table")},
    {Res("Table", "PractitionerWhitelist")},
    {Res("Role", "LambdaExecutionRole")},
    {Res("Role", "DocumentPollerRole")},
    {Res("Queue", "CompositionQueueDLQ"), Res("Queue", "CompositionQueue")},
    {Res("Queue", "S3UploadQueueDLQ"), Res("Queue", "S3UploadQueue")},
    {Res("Role", "PipesRoleDocumentWatchToS3Upload")},
    {Res("Role", "PipesRoleDdxResultsToComposition")},
    {Res("Pipe", "DocumentWatchToS3UploadPipe")},
    {Res("Pipe", "DdxResultsToCompositionQueuePipe")},
    {Res("Function", "RefreshCreds")},
    {Res("Function", "EncounterPoller")},
    {Res("Function", "DocumentPoller")},
    {Res("Function", "DownloadImage")},
    {Res("Function", "GetDdxAssistInference")},
    {Res("Function", "CreateComposition")},
    {Res("StateMachine", "MedicalImagingWorkflow"),
     Res("Role", "MedicalImagingWorkflow/Role")},
    {Res("Role", "EventsToSfnRoleModMedPollers")},
    {Res("Rule", "ImagingProcessorScheduler")} >>

StackInit ==
    /\ environment = "none"
    /\ buildPc = 0
    /\ resources = {}

\* app.py: MedicalImagingStack(app, stack_name, environment=environment)
NewStack(env) ==
    /\ buildPc = 0
    /\ environment' = env
    /\ buildPc' = 1
    /\ resources' = {}
    /\ UNCHANGED <<wfVars, pipeVars, queueVars, watchVars, storeVars, docVars, credVars,
                   orchVars>>

\* The next statement of __init__ runs.
Declare ==
    /\ buildPc \in 1 .. Len(Statements(environment))
    /\ resources' = resources \cup Statements(environment)[buildPc]
    /\ buildPc' = buildPc + 1
    /\ UNCHANGED environment
    /\ UNCHANGED <<wfVars, pipeVars, queueVars, watchVars, storeVars, docVars, credVars,
                   orchVars>>

\* __init__ has returned: the stack is built.
Built == buildPc = Len(Statements(environment)) + 1

\* template.resource_count_is(type, n): the number of resources of a type.
ResourceCount(type) == Cardinality({r \in resources : r.type = type})

----------------------------------------------------------------------------
(* Two scheduled runs and the EncounterWatch table                         *)

\* create_encounter_watch_table: partition_key encounterId, sort_key
\* patientId.  An encounter is of one patient.
PatientOf(e) == IF e = "enc2" THEN "pat2" ELSE "pat1"
WatchKey(item) == <<item.encounterId, item.patientId>>
KeysOf(table) == {WatchKey(i) : i \in table}

\* A write to the table: at most one item per primary key, a write under a
\* key that is present replaces the item.  (Variant: a write that leaves the
\* old item in place.)
PutRecordKeepingOld(table, item) == table \cup {item}
PutRecord(table, item) == {i \in table : WatchKey(i) # WatchKey(item)} \cup {item}

\* The item a run writes for an encounter.
WatchItem(e, status, r) ==
    [encounterId |-> e, patientId |-> PatientOf(e), status |-> status,
     writer |-> r]

NotStarted == [pc |-> "idle", active |-> {}, matching |-> {}, pending |-> {}]

OrchInit ==
    /\ encounterWatch = {}
    /\ orch = [r \in Runs |-> NotStarted]

\* The encounters of `active` with no item in table.
Unwatched(table, active) ==
    {e \in active : <<e, PatientOf(e)>> \notin KeysOf(table)}

\* The encounters of `matching` whose item in table has status NEW.
ToAdvance(table, matching) ==
    {e \in matching : \E i \in table : i.encounterId = e /\ i.status = "NEW"}

\* The rule fires (every minute, whether or not the run before has ended):
\* run r starts.  The EHR gives it `active`, the accepted active encounters,
\* and has a document for those of `matching`.  Its second step reads the
\* table for the encounters it has to insert.
BeginRun(r, active, matching) ==
    /\ orch[r].pc = "idle"
    /\ orch' = [orch EXCEPT ![r] = [pc |-> "inserting", active |-> active,
                                    matching |-> matching,
                                    pending |-> Unwatched(encounterWatch, active)]]
    /\ UNCHANGED encounterWatch
    /\ UNCHANGED <<wfVars, pipeVars, queueVars, watchVars, storeVars, docVars, credVars,
                   stackVars>>

\* The second step of run r writes the item of one encounter.
InsertRecord(r, e) ==
    /\ orch[r].pc = "inserting"
    /\ e \in orch[r].pending
    /\ encounterWatch' = PutRecord(encounterWatch, WatchItem(e, "NEW", r))
    /\ orch' = [orch EXCEPT ![r].pending = @ \ {e}]
    /\ UNCHANGED <<wfVars, pipeVars, queueVars, watchVars, storeVars, docVars, credVars,
                   stackVars>>

\* The second step of run r is over; its third step reads the table for the
\* records to poll.
BeginPolling(r) ==
    /\ orch[r].pc = "inserting"
    /\ orch[r].pending = {}
    /\ orch' = [orch EXCEPT ![r].pc = "polling",
                            ![r].pending = ToAdvance(encounterWatch, orch[r].matching)]
    /\ UNCHANGED encounterWatch
    /\ UNCHANGED <<wfVars, pipeVars, queueVars, watchVars, storeVars, docVars, credVars,
                   stackVars>>

\* The third step of run r found a document of encounter e: it writes the
\* item with status FOUND.
AdvanceRecord(r, e) ==
    /\ orch[r].pc = "polling"
    /\ e \in orch[r].pending
    /\ encounterWatch' = PutRecord(encounterWatch, WatchItem(e, "FOUND", r))
    /\ orch' = [orch EXCEPT ![r].pending = @ \ {e}]
    /\ UNCHANGED <<wfVars, pipeVars, queueVars, watchVars, storeVars, docVars, credVars,
                   stackVars>>

\* Run r ends.
EndRun(r) ==
    /\ orch[r].pc = "polling"
    /\ orch[r].pending = {}
    /\ orch' = [orch EXCEPT ![r].pc = "done"]
    /\ UNCHANGED encounterWatch
    /\ UNCHANGED <<wfVars, pipeVars, queueVars, watchVars, storeVars, docVars, credVars,
                   stackVars>>

\* The table after the items of the encounters of set are written to it, one
\* after the other.
RECURSIVE PutAll(_, _, _, _)
PutAll(table, set, status, r) ==
    IF set = {} THEN table
    ELSE LET e == CHOOSE x \in set : TRUE
         IN  PutAll(PutRecord(table, WatchItem(e, status, r)), set \ {e}, status, r)

\* The table after run r has run from start to end on table, alone, with the
\* EHR giving it `active` and `matching`.
RunAlone(table, r, active, matching) ==
    LET afterInserts == PutAll(table, Unwatched(table, active), "NEW", r)
    IN  PutAll(afterInserts, ToAdvance(afterInserts, matching), "FOUND", r)

\* The table after run r and then run q, one after the other, from the empty
\* table, with what the EHR gave each.
OneAfterTheOther(r, q) ==
    RunAlone(RunAlone({}, r, orch[r].active, orch[r].matching),
             q, orch[q].active, orch[q].matching)

----------------------------------------------------------------------------
(* Specifications                                                          *)

Init == WorkflowInit /\ PipeInit /\ QueueInit /\ WatchInit /\ StoreInit
        /\ DocPollerInit /\ CredsInit /\ StackInit /\ OrchInit

WorkflowNext ==
    \/ \E s \in TaskStates : TaskSucceed(s)
    \/ \E s \in TaskStates, e \in ErrorKinds : TaskFail(s, e)
    \/ \E s \in TaskStates : RetryTask(s)
    \/ HandleError

PipeNext ==
    \/ \E p \in Pipes, rec \in StreamRecords : PipePoll(p, rec)
    \/ \E ok \in BOOLEAN : PipeProcess(ok)
    \/ PipeTick

QueueNext ==
    \/ \E q \in Queues : SendMessage(q)
    \/ \E m \in MsgIds : ReceiveMessage(m)
    \/ \E m \in MsgIds : DeleteMessage(m)
    \/ VisibilityTick

PollerNext ==
    \/ \E active \in SUBSET Encounters : \E allowed \in SUBSET active :
          EncounterPoller(active, allowed)
    \/ HourTick

StoreNext ==
    \E item \in Items : Put(item)

DocPollerNext ==
    \/ \E r \in Runs : StartRun(r)
    \/ \E w \in Workers, e \in WatchList, match \in BOOLEAN : Lease(w, e, match)
    \/ \E w \in Workers : PollReturns(w)
    \/ \E r \in Runs : FinishRun(r)
    \/ \E r \in Runs : FailRun(r)
    \/ DocTick
    \/ \E e \in WatchList : RecordExpires(e)

CredsNext ==
    \/ \E valid \in BOOLEAN : EarlierRefresh(valid)
    \/ \E c \in Callers : GetToken(c)
    \/ \E c \in Callers : Lookup(c)
    \/ \E c \in Callers : ExchangeToken(c)
    \/ \E c \in Callers : Persist(c)
    \/ \E c \in Callers : Resolve(c)

StackNext ==
    \/ \E env \in Environments : NewStack(env)
    \/ Declare

OrchNext ==
    \/ \E r \in Runs, active \in SUBSET WatchList :
          \E matching \in SUBSET active : BeginRun(r, active, matching)
    \/ \E r \in Runs, e \in WatchList : InsertRecord(r, e)
    \/ \E r \in Runs : BeginPolling(r)
    \/ \E r \in Runs, e \in WatchList : AdvanceRecord(r, e)
    \/ \E r \in Runs : EndRun(r)

Spec         == Init /\ [][WorkflowNext]_vars
SpecPipes    == Init /\ [][PipeNext]_vars
SpecQueue    == Init /\ [][QueueNext]_vars
SpecPoller   == Init /\ [][PollerNext]_vars
SpecStore    == Init /\ [][StoreNext]_vars
SpecDocPoller == Init /\ [][DocPollerNext]_vars
SpecCreds    == Init /\ [][CredsNext]_vars
SpecStack    == Init /\ [][StackNext]_vars
SpecOrch     == Init /\ [][OrchNext]_vars

\* The schedule keeps starting invocations (cron(minute="*/1")), time
\* passes, and invocations do not fail forever: a record that workers can
\* take again and again is eventually taken, and a poll of it that can
\* return again and again eventually returns.
DocPollerFairness ==
    /\ \A r \in Runs : WF_vars(StartRun(r)) /\ WF_vars(FinishRun(r))
    /\ \A e \in WatchList :
          /\ SF_vars(\E w \in Workers, match \in BOOLEAN : Lease(w, e, match))
          /\ SF_vars(\E w \in Workers : PollReturns(w) /\ worker[w].rec = e)
    /\ WF_vars(DocTick)
SpecDocPollerFair == SpecDocPoller /\ DocPollerFairness

----------------------------------------------------------------------------
(* The claims about the workflow, checked under Spec                       *)

\* The run has reached the end of the chain: its last task returned.
Success == outcome = "SUCCEEDED" /\ endState = analyze_image_task

\* C1: the three tasks start in the order of the chain: a task has started
\* only if the task before it completed successfully; the run reaches
\* Success only after all three completed; and from each task, while it
\* runs, the run can enter HandleError.
C1_StepsInFixedOrder ==
    /\ attempts[extract_metadata_task] >= 1
    /\ attempts[process_image_task] > 0 => extract_metadata_task \in succeeded
    /\ attempts[analyze_image_task] > 0 => process_image_task \in succeeded
    /\ Success => succeeded = TaskStates
    /\ \A s \in TaskStates :
          (current = s /\ phase = "invoking") =>
              ENABLED (\E e \in ErrorKinds : TaskFail(s, e) /\ current' = "HandleError")
    /\ current = "HandleError" => errorFrom \in TaskStates

\* The third task failed and took the run to HandleError, after the first
\* two completed in order.
C1_Witness ==
    /\ current = "HandleError"
    /\ errorFrom = analyze_image_task
    /\ succeeded = {extract_metadata_task, process_image_task}

\* C2: a task is attempted at most 3 times in all, the retries come after
\* waits of 2 and then 4, and a failed third attempt takes the run to Error.
C2_AtMostThreeAttempts ==
    \A s \in TaskStates :
        /\ attempts[s] <= 3
        /\ waits[s] \in {<<>>, <<2>>, <<2, 4>>}
        /\ failed[s] >= 3 => errorFrom = s

\* C3: a task that fails with an error outside the transient set is not
\* attempted again: no retry is scheduled for that failure, no attempt
\* follows it, and the run is in HandleError (or over, having passed it).
C3_NonTransientNotRetried ==
    \A s \in TaskStates :
        lastError[s] \notin {"none", "Lambda.ServiceException",
                             "Lambda.ResourceNotFoundException"} =>
            /\ errorFrom = s
            /\ current \in {"HandleError", "End"}
            /\ attempts[s] = failed[s]
            /\ Len(waits[s]) = failed[s] - 1

\* The second task was retried once after a transient error, then failed
\* with a function error and went to HandleError.
C3_Witness ==
    /\ lastError[process_image_task] = "States.TaskFailed"
    /\ attempts[process_image_task] = 2
    /\ current = "HandleError"

\* C4: two transient failures of a task do not take the run to Error: a
\* third attempt is made; when it succeeds the run goes on with the next
\* task, and a run whose three tasks all completed is a Success that never
\* entered HandleError.
C4_ThirdAttemptSucceeds ==
    /\ \A s \in TaskStates :
          (failed[s] = 2 /\ lastError[s] \in {"Lambda.ServiceException",
                                              "Lambda.ResourceNotFoundException"}) =>
              /\ errorFrom # s
              /\ (current = s /\ phase = "waiting") \/ attempts[s] = 3
    /\ (failed[extract_metadata_task] = 2 /\ extract_metadata_task \in succeeded) =>
          attempts[process_image_task] >= 1
    /\ (failed[process_image_task] = 2 /\ process_image_task \in succeeded) =>
          attempts[analyze_image_task] >= 1
    /\ succeeded = TaskStates =>
          /\ Success
          /\ errorFrom = "none"
          /\ ~Has(data, "error") /\ ~Has(data, "errorInfo")

\* The second task failed twice with a transient error and succeeded on its
\* third attempt; the run went on and ended as Success.
C4_Witness ==
    /\ Success
    /\ failed[process_image_task] = 2
    /\ attempts[process_image_task] = 3
    /\ lastError[process_image_task] = "Lambda.ServiceException"
    /\ errorFrom = "none"

\* C5: a run that went through HandleError has the error code and the cause
\* of the failing task recorded under $.errorInfo and ends FAILED; nothing
\* is attempted after HandleError is entered.
C5_ErrorRecordedAndFailed ==
    /\ endState = "HandleError" =>
          /\ outcome = "FAILED"
          /\ Has(data, "errorInfo")
          /\ data["errorInfo"].error.Error = lastError[errorFrom]
          /\ data["errorInfo"].error.Cause = errorFrom
    /\ current \in {"HandleError", "End"} => phase \in {"pass", "over"}

----------------------------------------------------------------------------
(* The claims about the pipes, checked under SpecPipes                     *)

Sent == {m \in MsgIds : msgs[m].loc # "none"}
Last(seq) == seq[Len(seq)]

\* C6: a record whose NewImage has the filtered status (NEW on DocumentWatch,
\* ANALYZED on the results table) puts exactly one message on the queue,
\* with the record's key id (fileId) as its deduplication id; a record with
\* another status puts none.
C6_OneMessageKeyedByEntity ==
    /\ batch.state = "sent" =>
          /\ Len(sendLog) >= 1
          /\ Last(sendLog).accepted
          /\ Last(sendLog).dedupId = batch.rec.fileId
    /\ batch.state \in {"sent", "dead"} =>
          batch.rec.status = (IF batch.pipe = document_watch_pipe THEN "NEW" ELSE "ANALYZED")
    /\ Cardinality(Sent) = Len(sendLog)

\* Does the record fail the filter of pipe p, as the claim describes it?
NonMatching(p, rec) ==
    \/ rec.eventName = "REMOVE"
    \/ rec.status # (IF p = document_watch_pipe THEN "NEW" ELSE "ANALYZED")

\* C7: handling a record that does not match the filter (a delete, or an
\* insert or update with another status) leaves the queues and the
\* dead-letter targets as they were.
C7_NonMatchingNoEffect ==
    [][(batch.state = "polled" /\ NonMatching(batch.pipe, batch.rec)) =>
          (msgs' = msgs /\ pipeDlq' = pipeDlq /\ sendLog' = sendLog
           /\ batch'.state \in {"polled", "dropped"})]_vars

\* A delete whose NewImage has the filtered status was dropped, with a
\* message already on a queue.
C7_Witness ==
    /\ batch.state = "dropped"
    /\ batch.rec.eventName = "REMOVE"
    /\ batch.rec.status = "NEW" /\ batch.pipe = document_watch_pipe
    /\ Sent # {}

\* The interval of the claim: 5 minutes.
DedupWindow == 5 * 60

\* C9: of two sends of a pipe with the same deduplication id less than
\* 5 minutes apart, the queue takes only the first.
C9_DuplicateSuppressed ==
    \A i, j \in 1 .. Len(sendLog) :
        (/\ i < j
         /\ sendLog[i].pipe = sendLog[j].pipe
         /\ sendLog[i].dedupId = sendLog[j].dedupId
         /\ sendLog[i].accepted
         /\ sendLog[j].at - sendLog[i].at < DedupWindow) => ~sendLog[j].accepted

----------------------------------------------------------------------------
(* The claim about the queues, checked under SpecQueue                     *)

\* C8: a message received more than 3 times (its receive count exceeds
\* max_receive_count) is in the dead-letter queue and not in the main queue;
\* one received 3 times or fewer is not in the dead-letter queue.  A message
\* has one place at a time: the move takes it off the main queue.
C8_DeadLetterAfterThree ==
    \A m \in MsgIds :
        /\ msgs[m].receiveCount > 3 => msgs[m].loc = "dlq"
        /\ msgs[m].receiveCount <= 3 => msgs[m].loc # "dlq"

\* On each queue a message was received three times, timed out each time
\* and was moved by the fourth receive.
C8_Witness ==
    \E m, n \in MsgIds :
        /\ msgs[m].queue = composition_queue /\ msgs[m].loc = "dlq"
        /\ msgs[n].queue = s3_upload_queue /\ msgs[n].loc = "dlq"
        /\ msgs[m].receiveCount = 4 /\ msgs[n].receiveCount = 4

----------------------------------------------------------------------------
(* The claim about the Encounter-Poller, checked under SpecPoller          *)

\* C10: an invocation inserts one record, with status NEW and expiry 24 h
\* from now, for each active and allowed encounter that has no unexpired
\* record, and writes nothing for any other encounter.
C10_InsertsOnlyUnwatched ==
    [][hours' = hours =>
          \A e \in Encounters :
              IF /\ e \in ehrActive' /\ e \in ehrAllowed'
                 /\ ~(watch[e].present /\ watch[e].expiresAt >= hours)
              THEN /\ e \in inserted'
                   /\ watch'[e] = [present |-> TRUE, status |-> "NEW",
                                   expiresAt |-> hours + 24]
              ELSE /\ e \notin inserted'
                   /\ watch'[e] = watch[e]]_vars

\* Three active, allowed encounters, one of them watched since an earlier
\* invocation: two inserts.
C10_Witness ==
    /\ ehrActive = Encounters /\ ehrAllowed = Encounters
    /\ Cardinality(inserted) = 2
    /\ \E e \in Encounters \ inserted :
          /\ watch[e].present /\ watch[e].status = "NEW"
          /\ watch[e].expiresAt = hours + 12
    /\ \A e \in inserted : watch[e].expiresAt = hours + 24

----------------------------------------------------------------------------
(* The claim about the DocumentWatch table, checked under SpecStore        *)

\* C13: a write of an item leaves exactly one item under the item's key, the
\* item written, and every item under another key as it was; a second write
\* of the same item changes nothing in the table.
C13_UpsertIdempotent ==
    [][putSeq' # putSeq =>
          /\ GetItem(documentWatch', <<lastPut'.fileId, lastPut'.firmId>>) = {lastPut'}
          /\ {i \in documentWatch' :
                 i.fileId # lastPut'.fileId \/ i.firmId # lastPut'.firmId}
               = {i \in documentWatch :
                     i.fileId # lastPut'.fileId \/ i.firmId # lastPut'.firmId}
          /\ lastPut' = lastPut => documentWatch' = documentWatch]_vars

\* An item was written over an item of the same key and another status, with
\* items under the three other keys in the table.
C13_Witness ==
    /\ Cardinality(documentWatch) = 4
    /\ lastPut \in documentWatch
    /\ lastPut.status = "FOUND"
    /\ \A i \in documentWatch : i.status = "FOUND"

----------------------------------------------------------------------------
(* The claims about the Document-Poller, checked under SpecDocPoller and   *)
(* SpecDocPollerFair                                                       *)

\* C11: when the poll of a due record returns with a matching document, the
\* record's status becomes FOUND and DocumentWatch holds an item for the
\* document; when it returns without one, the status stays, DocumentWatch
\* is as it was and the record's next poll is moved to later.
C11_PollOutcome ==
    [][\A w \in Workers :
          (/\ worker[w].state = "polling" /\ worker'[w].state = "idle"
           /\ run'[RunOf(w)] = "running"
           /\ watchList[worker[w].rec].dueIn = 0) =>
             LET e == worker[w].rec
                 doc == IF e = "enc1" THEN "doc1" ELSE "doc2"
             IN  IF worker[w].match
                 THEN /\ watchList'[e].status = "FOUND"
                      /\ \E i \in documentWatch' : i.fileId = doc
                 ELSE /\ watchList'[e].status = watchList[e].status
                      /\ documentWatch' = documentWatch
                      /\ watchList'[e].dueIn > watchList[e].dueIn]_vars

\* enc1 was polled with a match, enc2 without.
C11_Witness ==
    /\ watchList["enc1"].status = "FOUND"
    /\ \E i \in documentWatch : i.fileId = "doc1"
    /\ watchList["enc2"].status = "NEW" /\ watchList["enc2"].dueIn > 0
    /\ \A i \in documentWatch : i.fileId # "doc2"

\* C17: no two workers poll the same record at once, and a worker that polls
\* a record holds the unexpired lease on it; a worker that finds the lease
\* on a record of its batch held leaves the record out and nothing else
\* changes: its invocation goes on running.
C17_LeaseExclusive ==
    /\ \A w, v \in Workers :
          (w # v /\ worker[w].state = "polling" /\ worker[v].state = "polling") =>
              worker[w].rec # worker[v].rec
    /\ \A w \in Workers :
          worker[w].state = "polling" =>
              /\ leases[worker[w].rec].holder = w
              /\ leases[worker[w].rec].left > 0
    /\ \A w \in Workers, e \in WatchList :
          (/\ run[RunOf(w)] = "running" /\ worker[w].state = "idle"
           /\ e \in dueBatch[RunOf(w)] /\ leases[e].left > 0) =>
              ENABLED (/\ \E match \in BOOLEAN : Lease(w, e, match)
                       /\ run' = run /\ worker' = worker /\ leases' = leases
                       /\ watchList' = watchList /\ missed' = missed
                       /\ dueBatch'[RunOf(w)] = dueBatch[RunOf(w)] \ {e})

\* Two workers of one invocation poll the two records, and the worker of the
\* overlapping invocation has both records, leased, in its batch.
C17_Witness ==
    /\ worker["w1"].state = "polling" /\ worker["w2"].state = "polling"
    /\ run["run2"] = "running" /\ worker["w3"].state = "idle"
    /\ dueBatch["run2"] = WatchList

\* What a failed invocation leaves behind (C18): the records it had not
\* polled are as they were; a missed record keeps its status and its
\* next-poll-due until it is polled; the next invocation that starts has
\* every missed, unexpired record in its batch.
MissedStaysDue ==
    /\ \A r \in Runs :
          (run[r] = "running" /\ run'[r] = "idle") =>
              \A e \in dueBatch[r] \cup Polling(r) : watchList'[e] = watchList[e]
    /\ \A e \in missed :
          e \in missed' =>
              /\ watchList'[e].status = watchList[e].status
              /\ watchList'[e].dueIn = watchList[e].dueIn
    /\ \A r \in Runs :
          (run[r] = "idle" /\ run'[r] = "running") =>
              \A e \in missed : ~watchList[e].expired => e \in dueBatch'[r]

\* C18: ... and every missed record is eventually polled.
C18_MissedEventuallyPolled ==
    /\ [][MissedStaysDue]_vars
    /\ \A e \in WatchList : (e \in missed) ~> (e \notin missed)

\* C18, amended: ... and every missed record is eventually polled, unless it
\* expires first.
C18_MissedPolledUnlessExpired ==
    /\ [][MissedStaysDue]_vars
    /\ \A e \in WatchList :
          (e \in missed) ~> (e \notin missed \/ watchList[e].expired)

\* A record that a failed invocation missed is being polled by a later one.
C18_Witness ==
    \E w \in Workers :
        /\ worker[w].state = "polling"
        /\ worker[w].rec \in missed
        /\ ~watchList[worker[w].rec].expired

----------------------------------------------------------------------------
(* The claim about the credential cache, checked under SpecCreds           *)

\* C12: when the entry was absent or expired before two getToken calls, at
\* most one exchange is ever made, and once both calls have returned exactly
\* one was made and both returned its token.
C12_SingleFlight ==
    priorEntry \in {"absent", "expired"} =>
        /\ exchanges <= 1
        /\ (\A c \in Callers : call[c].pc = "returned") =>
              /\ exchanges = 1
              /\ call["c1"].token = call["c2"].token
              /\ call["c1"].token = 1

\* With an expired entry, one call made the exchange and the other, having
\* joined it, returned the same token.
C12_Witness ==
    /\ priorEntry = "expired"
    /\ \E c, d \in Callers :
          /\ call[c].pc = "returned" /\ call[c].via = "exchange"
          /\ call[d].pc = "returned" /\ call[d].via = "joined"
    /\ exchanges = 1

----------------------------------------------------------------------------
(* The state of a run across its steps, checked under Spec                 *)

\* C20: a task that completes writes its result under its own field of the
\* run state and changes no other field (the run's input and the results of
\* earlier tasks stay as they were); the task entered next is invoked with
\* the output of the task before it, and the third with the outputs of both
\* the first and the second.
C20_StepsKeepEarlierResults ==
    [][\A s \in TaskStates :
          (current = s /\ s \notin succeeded /\ s \in succeeded') =>
              LET own == CASE s = "ExtractMetadata" -> "metadataResult"
                           [] s = "ProcessImage"    -> "processingResult"
                           [] s = "AnalyzeImage"    -> "analysisResult"
              IN  /\ \A f \in Fields \ {own} : data'[f] = data[f]
                  /\ Has(data', own) /\ data'[own].Payload = s
                  /\ s = "ExtractMetadata" =>
                        payload(current', data') =
                            [metadataResult |-> "ExtractMetadata"]
                  /\ s = "ProcessImage" =>
                        payload(current', data') =
                            [processingResult |-> "ProcessImage",
                             metadataResult   |-> "ExtractMetadata"]
      ]_vars

\* A run started with an input of its own ended after its three tasks: the
\* state holds the input and the three results.
C20_Witness ==
    /\ outcome = "SUCCEEDED" /\ endState = "AnalyzeImage"
    /\ data["cause"] = [present |-> TRUE, value |-> "input"]
    /\ data["metadataResult"] = [present |-> TRUE, Payload |-> "ExtractMetadata"]
    /\ data["processingResult"] = [present |-> TRUE, Payload |-> "ProcessImage"]
    /\ data["analysisResult"] = [present |-> TRUE, Payload |-> "AnalyzeImage"]

----------------------------------------------------------------------------
(* The visibility timeout, checked under SpecQueue                         *)

\* C19: a message received from a work queue and not acked cannot be
\* received again while less than the visibility timeout has passed since it
\* was received (180 s on the upload queue, 300 s on the composition queue),
\* and can be received again once that much time has passed.
C19_VisibilityTimeout ==
    \A m \in MsgIds :
        (msgs[m].loc = "main" /\ msgs[m].receiveCount > 0) =>
            LET timeout == IF msgs[m].queue = "S3UploadQueue" THEN 180 ELSE 300
            IN  IF msgs[m].sinceReceive < timeout
                THEN ~ENABLED ReceiveMessage(m)
                ELSE ENABLED ReceiveMessage(m)

\* One message of each queue is in flight after a receive and time has
\* passed: the upload queue's timeout is over, the composition queue's is
\* not.
C19_Witness ==
    \E m, n \in MsgIds :
        /\ msgs[m].loc = "main" /\ msgs[m].queue = "S3UploadQueue"
        /\ msgs[m].receiveCount = 1 /\ msgs[m].sinceReceive = 180
        /\ msgs[n].loc = "main" /\ msgs[n].queue = "CompositionQueue"
        /\ msgs[n].receiveCount = 1 /\ msgs[n].sinceReceive = 180

----------------------------------------------------------------------------
(* Function timeouts in the workflow, checked under Spec                   *)

\* C16: a task whose call timed out is attempted again under the retry
\* policy: the run goes to HandleError on a timeout of task s only once the
\* 3 retries of s are used up.
C16_TimeoutRetried ==
    \A s \in TaskStates :
        (lastError[s] = "Sandbox.Timedout" /\ errorFrom = s) => Len(waits[s]) = 3

----------------------------------------------------------------------------
(* The claims about the stack, checked under SpecStack                     *)

\* C14: the stack built for dev has exactly 4 tables, 4 functions, 1 bucket,
\* 4 queues, 1 state machine and 5 roles.
C14_ResourceCounts ==
    (Built /\ environment = "dev") =>
        /\ ResourceCount("Table") = 4
        /\ ResourceCount("Function") = 4
        /\ ResourceCount("Bucket") = 1
        /\ ResourceCount("Queue") = 4
        /\ ResourceCount("StateMachine") = 1
        /\ ResourceCount("Role") = 5

\* C15: the bucket of the stack built for dev is named
\* medical-imaging-files-dev.
C15_BucketName ==
    (Built /\ environment = "dev") =>
        \E r \in resources : r.type = "Bucket" /\ r.id = "medical-imaging-files-dev"

----------------------------------------------------------------------------
(* Overlapping runs, checked under SpecOrch                                *)

\* C21: two runs that overlap, in any interleaving of their writes, never
\* leave two items with the same key (encounterId, patientId) in the table,
\* and once both have ended the table holds the same set of keys as after
\* the two runs one after the other, in either order.
C21_OverlappingRunsSameKeys ==
    /\ \A i, j \in encounterWatch :
          (i.encounterId = j.encounterId /\ i.patientId = j.patientId) => i = j
    /\ (\A r \in Runs : orch[r].pc = "done") =>
          /\ KeysOf(encounterWatch) = KeysOf(OneAfterTheOther("run1", "run2"))
          /\ KeysOf(encounterWatch) = KeysOf(OneAfterTheOther("run2", "run1"))

\* Both runs have ended after each read the table before the other wrote
\* enc1, so that both wrote it: run1 advanced it to FOUND and run2's insert,
\* written later, is the item the table holds.
C21_Witness ==
    /\ \A r \in Runs : orch[r].pc = "done"
    /\ "enc1" \in orch["run1"].matching
    /\ WatchItem("enc1", "NEW", "run2") \in encounterWatch
    /\ WatchItem("enc2", "NEW", "run1") \in encounterWatch

====
